---- MODULE Spec2Model ----
(***************************************************************************)
(* Model of scanner.py (tw-stock-scanner): the position ledger             *)
(* (history.json), the today result document (data.json), the ledger       *)
(* refresh update_history_roi and the batch job run_scanner, together with *)
(* the environment they read: the wall clock (Asia/Taipei) and the price   *)
(* provider's daily close series.                                          *)
(*                                                                         *)
(* Conventions.                                                            *)
(*  - A calendar date is its day number counted from 2024-01-01 (day 0, a  *)
(*    Monday).  A ledger key "YYYY/MM/DD" is the number YYYYMMDD, whose    *)
(*    numeric order is the lexicographic order of the zero-padded string.  *)
(*  - A time of day is in seconds since midnight.                          *)
(*  - Closes are whole numbers, so round(close, 2) leaves them as they     *)
(*    are; percentages (roi, daily_change, changeRate, milestones) are in  *)
(*    hundredths of a percent: the value of round(x, 2) times 100.         *)
(*  - Python's None is the empty tuple <<>>, a present value v is <<v>>.   *)
(***************************************************************************)
EXTENDS Integers, Sequences, FiniteSets, TLC

VARIABLES
    day,         \* calendar date of the wall clock (Asia/Taipei)
    tod,         \* time of day of the wall clock, seconds since midnight
    quotes,      \* provider: per instrument code, the change points of its close
    history_db,  \* history.json: sequence of [key, stocks], the ledger
    data_json,   \* data.json: the today result document
    last_run,    \* the inputs of the latest run_scanner call: failures and matches
    runs,        \* number of run_scanner invocations completed so far
    moves,       \* number of provider price changes so far
    ticks,       \* number of clock steps so far
    skips,       \* number of long idle periods so far
    matches,     \* number of instruments the evaluators have matched so far
    saves,       \* the save_json calls of the latest run_scanner call, in order
    pc,          \* where run_scanner stands: "idle", "refresh", "scan" (a batch is
                 \* to be downloaded) or "finish" (the last batch is done)
    now,         \* the clock reading <<day, tod>> of the run under way, None when idle
    mem_db,      \* the ledger in the memory of the run under way, None when idle
    batch_no,    \* the batch the scan downloads next (from 1) or, at "finish", did
                 \* last; 0 outside the scan
    daily_results, \* the entries the scan of the run under way has found so far
    df,          \* an OHLCV frame handed to the three evaluators
    verdict      \* what the three evaluators returned for df, None before

vars == <<day, tod, quotes, history_db, data_json, last_run, runs, moves, ticks, skips,
          matches, saves, pc, now, mem_db, batch_no, daily_results, df, verdict>>

(***************************************************************************)
(* Bounds of the model: the runs, the clock steps and the matches of the    *)
(* evaluators in a behaviour of the first days (Spec) and of long holding  *)
(* periods (SpecLong), the price changes and the long idle periods.        *)
(***************************************************************************)
MaxRuns == 2
MaxTicks == 3
MaxMatches == 2
MaxRunsLong == 3
MaxTicksLong == 3
MaxMatchesLong == 1
MaxMoves == 1
MaxSkips == 3
NumTwse == 100
NumTpex == 1
MaxBars == 311

None == <<>>
Some(v) == <<v>>

Min(a, b) == IF a <= b THEN a ELSE b
Max(a, b) == IF a >= b THEN a ELSE b

(***************************************************************************)
(* Calendar: datetime arithmetic, strftime("%Y/%m/%d") and strptime.       *)
(***************************************************************************)
IsLeap(y) == (y % 4 = 0 /\ y % 100 # 0) \/ y % 400 = 0

DaysInYear(y) == IF IsLeap(y) THEN 366 ELSE 365

DaysInMonth(y, m) ==
    IF m = 2 THEN (IF IsLeap(y) THEN 29 ELSE 28)
    ELSE IF m \in {4, 6, 9, 11} THEN 30 ELSE 31

\* Day number of January 1st of year y.
RECURSIVE YearStart(_)
YearStart(y) ==
    IF y = 2024 THEN 0
    ELSE IF y > 2024 THEN YearStart(y - 1) + DaysInYear(y - 1)
    ELSE YearStart(y + 1) - DaysInYear(y)

RECURSIVE YearOf(_, _)
YearOf(d, y) ==
    IF d < YearStart(y) THEN YearOf(d, y - 1)
    ELSE IF d >= YearStart(y + 1) THEN YearOf(d, y + 1)
    ELSE y

\* Month and day of month of the (0-based) day-of-year n of year y.
RECURSIVE MonthDay(_, _, _)
MonthDay(y, m, n) ==
    IF n < DaysInMonth(y, m) THEN <<m, n + 1>>
    ELSE MonthDay(y, m + 1, n - DaysInMonth(y, m))

RECURSIVE DaysBeforeMonth(_, _)
DaysBeforeMonth(y, m) ==
    IF m = 1 THEN 0 ELSE DaysBeforeMonth(y, m - 1) + DaysInMonth(y, m - 1)

\* now.strftime("%Y/%m/%d")
strftime_ymd(d) ==
    LET y == YearOf(d, 2024)
        md == MonthDay(y, 1, d - YearStart(y))
    IN y * 10000 + md[1] * 100 + md[2]

\* parse_record_date: the formats of the list that carry a time of day never
\* match a key written by run_scanner; a key that is no date yields None.
parse_record_date(key) ==
    LET y == key \div 10000
        m == (key % 10000) \div 100
        dd == key % 100
    IN IF m \in 1..12 /\ dd >= 1 /\ dd <= DaysInMonth(y, m)
       THEN Some(YearStart(y) + DaysBeforeMonth(y, m) + dd - 1)
       ELSE None

(***************************************************************************)
(* The price provider (yfinance), period = "2y", daily bars.               *)
(* Every weekday is a trading day; the bar of a trading day appears when   *)
(* the session opens and its close may move until the session has closed.  *)
(* The close of an instrument is piecewise constant: quotes[c] lists the   *)
(* change points [from, px] in increasing order of from.                   *)
(***************************************************************************)
market_open == 32400
market_close == 48600
LookbackDays == 730
\* A Monday well before every lookback window of the model (day 0 is a Monday).
Monday0 == 0 - 7 * 320

IsTradingDay(d) == (d - Monday0) % 7 < 5

\* Number of trading days d with Monday0 <= d <= n.
BarCount(n) ==
    IF n < Monday0 THEN 0
    ELSE LET m == n - Monday0 + 1
         IN 5 * (m \div 7) + Min(m % 7, 5)

\* The date of the c-th trading day counted from Monday0 (c >= 1).
BarDay(c) == Monday0 + 7 * ((c - 1) \div 5) + ((c - 1) % 5)

\* Date of the latest bar the provider has at the clock (d, t).
LastBarDay(d, t) ==
    IF IsTradingDay(d) /\ t >= market_open THEN d ELSE BarDay(BarCount(d - 1))

\* Bars dated before the first day of the lookback window are not returned.
BarsBeforeWindow(d) == BarCount(d - LookbackDays - 1)

\* len(series)
SeriesLen(d, t) == BarCount(LastBarDay(d, t)) - BarsBeforeWindow(d)

\* series.index[idx], 0-based
SeriesDay(d, idx) == BarDay(BarsBeforeWindow(d) + idx + 1)

RECURSIVE CloseFrom(_, _, _)
CloseFrom(q, n, dt) ==
    IF n = 1 \/ q[n].from <= dt THEN q[n].px ELSE CloseFrom(q, n - 1, dt)

\* The provider's close of instrument c for the bar dated dt.
CloseOn(qs, c, dt) == CloseFrom(qs[c], Len(qs[c]), dt)

\* series.iloc[idx], 0-based
SeriesAt(qs, c, d, idx) == CloseOn(qs, c, SeriesDay(d, idx))

\* series.index.searchsorted(record_ts): the number of bars dated before rd.
searchsorted(d, t, rd) ==
    Max(0, Min(BarCount(rd - 1), BarCount(LastBarDay(d, t))) - BarsBeforeWindow(d))

(***************************************************************************)
(* Binary floating point (IEEE 754 binary64, round to nearest, ties to      *)
(* even), on which the percentages are computed.  A positive double is      *)
(* [m, e]: m its significand, a sequence of at most 53 binary digits, the   *)
(* most significant first, and e the weight of the last digit: the value   *)
(* is m * 2^e.  Whole numbers below 2^30 are doubles as they are.           *)
(***************************************************************************)
\* The whole number written by the binary digits bits[lo..hi], by halves.
RECURSIVE BitsIntRange(_, _, _)
BitsIntRange(bits, lo, hi) ==
    IF lo > hi THEN 0
    ELSE IF lo = hi THEN bits[lo]
    ELSE LET mid == (lo + hi) \div 2
         IN BitsIntRange(bits, lo, mid) * 2^(hi - mid) + BitsIntRange(bits, mid + 1, hi)

BitsInt(bits) == BitsIntRange(bits, 1, Len(bits))

\* The binary digits of the whole number v (none for 0).
RECURSIVE BitsOf(_)
BitsOf(v) == IF v = 0 THEN <<>> ELSE Append(BitsOf(v \div 2), v % 2)

\* bits + 1 (one digit longer when every digit is 1).
BitsInc(bits) ==
    IF \A i \in 1..Len(bits) : bits[i] = 1
    THEN <<1>> \o [i \in 1..Len(bits) |-> 0]
    ELSE LET z == CHOOSE k \in 1..Len(bits) :
                     bits[k] = 0 /\ \A j \in (k + 1)..Len(bits) : bits[j] = 1
         IN [i \in 1..Len(bits) |-> IF i < z THEN bits[i] ELSE IF i = z THEN 1 ELSE 0]

\* bits cut to its first keep digits (0 <= keep), to nearest, a tie to even.
BitsRound(bits, keep) ==
    IF keep >= Len(bits) THEN bits
    ELSE LET head == SubSeq(bits, 1, keep)
             half == bits[keep + 1] = 1 /\ \A i \in (keep + 2)..Len(bits) : bits[i] = 0
             above == bits[keep + 1] = 1 /\ ~half
             odd == keep > 0 /\ bits[keep] = 1
         IN IF above \/ (half /\ odd)
            THEN (IF keep = 0 THEN <<1>> ELSE BitsInc(head))
            ELSE head

\* bits[lo..hi] * c + carry, c a small whole number and 0 <= carry < c: the
\* digits of the positions lo..hi and the carry out of them; the lower half
\* is computed first, its carry goes into the upper half.
RECURSIVE BitsMulRange(_, _, _, _, _)
BitsMulRange(bits, lo, hi, c, carry) ==
    IF carry >= c THEN [digits |-> <<>>, carry |-> carry]
    ELSE IF lo = hi
    THEN [digits |-> <<(bits[lo] * c + carry) % 2>>, carry |-> (bits[lo] * c + carry) \div 2]
    ELSE LET mid == (lo + hi) \div 2
             low == BitsMulRange(bits, mid + 1, hi, c, carry)
             high == BitsMulRange(bits, lo, mid, c, low.carry)
         IN [digits |-> high.digits \o low.digits, carry |-> high.carry]

\* bits * c.
BitsMul(bits, c) ==
    LET p == BitsMulRange(bits, 1, Len(bits), c, 0)
    IN BitsOf(p.carry) \o p.digits

\* bits without its leading zeros.
BitsTrim(bits) ==
    IF \A i \in 1..Len(bits) : bits[i] = 0 THEN <<>>
    ELSE LET first == CHOOSE k \in 1..Len(bits) :
                         bits[k] = 1 /\ \A j \in 1..(k - 1) : bits[j] = 0
         IN SubSeq(bits, first, Len(bits))

\* bits * 2^k.
BitsShl(bits, k) == IF Len(bits) = 0 THEN bits ELSE bits \o [i \in 1..k |-> 0]

\* -1, 0 or 1 as a is below, equal to or above b (neither has leading zeros).
BitsCmp(a, b) ==
    IF Len(a) # Len(b) THEN (IF Len(a) < Len(b) THEN 0 - 1 ELSE 1)
    ELSE IF a = b THEN 0
    ELSE LET k == CHOOSE i \in 1..Len(a) :
                     a[i] # b[i] /\ \A j \in 1..(i - 1) : a[j] = b[j]
         IN IF a[k] < b[k] THEN 0 - 1 ELSE 1

\* a[lo..hi] - b[lo..hi] - borrow for two sequences of one length: the digits
\* of the positions lo..hi and the borrow out of them; the lower half is
\* computed first, its borrow goes into the upper half.
RECURSIVE BitsSubRange(_, _, _, _, _)
BitsSubRange(a, b, lo, hi, borrow) ==
    IF borrow > 1 THEN [digits |-> <<>>, borrow |-> borrow]
    ELSE IF lo = hi
    THEN [digits |-> <<(a[lo] - b[lo] - borrow) % 2>>,
          borrow |-> IF a[lo] - b[lo] - borrow < 0 THEN 1 ELSE 0]
    ELSE LET mid == (lo + hi) \div 2
             low == BitsSubRange(a, b, mid + 1, hi, borrow)
             high == BitsSubRange(a, b, lo, mid, low.borrow)
         IN [digits |-> high.digits \o low.digits, borrow |-> high.borrow]

\* a - b for a >= b.
BitsSub(a, b) ==
    IF Len(b) = 0 THEN a
    ELSE LET padded == [i \in 1..(Len(a) - Len(b)) |-> 0] \o b
         IN BitsTrim(BitsSubRange(a, padded, 1, Len(a), 0).digits)

\* The double nearest to bits * 2^e.
fl(bits, e) ==
    LET t == BitsTrim(bits)
    IN IF Len(t) <= 53 THEN [m |-> t, e |-> e]
       ELSE LET k == Len(t) - 53
                r == BitsRound(t, 53)
            IN IF Len(r) = 54 THEN [m |-> SubSeq(r, 1, 53), e |-> e + k + 1]
               ELSE [m |-> r, e |-> e + k]

\* The double of a whole number below 2^31.
float(n) == [m |-> BitsOf(n), e |-> 0]

\* The next k binary digits of r / d (r < d, k >= 1) and what is left of r
\* after them, the first half of the digits first.
RECURSIVE DivRange(_, _, _)
DivRange(r, d, k) ==
    IF r >= d THEN [digits |-> <<>>, rem |-> r]
    ELSE IF k = 1
    THEN IF 2 * r >= d THEN [digits |-> <<1>>, rem |-> 2 * r - d]
         ELSE [digits |-> <<0>>, rem |-> 2 * r]
    ELSE LET first == DivRange(r, d, k \div 2)
             rest == DivRange(first.rem, d, k - k \div 2)
         IN [digits |-> first.digits \o rest.digits, rem |-> rest.rem]

\* The next k binary digits of r / d, and a last digit that says whether
\* anything is left after them.
DivBits(r, d, k) ==
    LET q == DivRange(r, d, k)
    IN Append(q.digits, IF q.rem > 0 THEN 1 ELSE 0)

\* The double n / d of two whole numbers n >= 0 and d > 0, below 2^30: the
\* quotient is brought into [1, 2) and developed to 55 digits, which decide
\* the rounding.
RECURSIVE fl_div_scaled(_, _, _)
fl_div_scaled(n, d, e) ==
    IF n < d THEN fl_div_scaled(2 * n, d, e - 1)
    ELSE IF n >= 2 * d THEN fl_div_scaled(n, 2 * d, e + 1)
    ELSE fl(<<1>> \o DivBits(n - d, d, 54), e - 55)

fl_div(n, d) == IF n = 0 THEN [m |-> <<>>, e |-> 0] ELSE fl_div_scaled(n, d, 0)

\* The double x * c, c a small whole number.
fl_mul(x, c) == fl(BitsMul(x.m, c), x.e)

\* -1, 0 or 1 as the double x is below, equal to or above the double y
\* (neither is negative).
fl_cmp(x, y) ==
    IF Len(x.m) = 0 \/ Len(y.m) = 0
    THEN (IF Len(x.m) > 0 THEN 1 ELSE IF Len(y.m) > 0 THEN 0 - 1 ELSE 0)
    ELSE LET e0 == Min(x.e, y.e)
         IN BitsCmp(BitsShl(x.m, x.e - e0), BitsShl(y.m, y.e - e0))

\* The double x - y of two doubles x >= y >= 0.
fl_sub(x, y) ==
    IF Len(y.m) = 0 THEN x
    ELSE LET e0 == Min(x.e, y.e)
         IN fl(BitsSub(BitsShl(x.m, x.e - e0), BitsShl(y.m, y.e - e0)), e0)

\* max and min of two doubles.
fl_max(x, y) == IF fl_cmp(x, y) >= 0 THEN x ELSE y
fl_min(x, y) == IF fl_cmp(x, y) <= 0 THEN x ELSE y

\* The next k binary digits of r / d for two binary numbers r < d (k >= 1)
\* and what is left of r after them, the first half of the digits first.
RECURSIVE DivRangeBits(_, _, _)
DivRangeBits(r, d, k) ==
    IF BitsCmp(r, d) >= 0 THEN [digits |-> <<>>, rem |-> r]
    ELSE IF k = 1
    THEN IF BitsCmp(BitsShl(r, 1), d) >= 0
         THEN [digits |-> <<1>>, rem |-> BitsSub(BitsShl(r, 1), d)]
         ELSE [digits |-> <<0>>, rem |-> BitsShl(r, 1)]
    ELSE LET first == DivRangeBits(r, d, k \div 2)
             rest == DivRangeBits(first.rem, d, k - k \div 2)
         IN [digits |-> first.digits \o rest.digits, rem |-> rest.rem]

\* The double x / y of two doubles x >= 0 and y > 0: the significands are
\* brought to a quotient in [1, 2), which is developed to 55 digits.
fl_divide(x, y) ==
    IF Len(x.m) = 0 THEN x
    ELSE
    LET n == Max(Len(x.m), Len(y.m))
        b == BitsShl(y.m, n - Len(y.m))
        a0 == BitsShl(x.m, n - Len(x.m))
        below == BitsCmp(a0, b) < 0
        a == IF below THEN BitsShl(a0, 1) ELSE a0
        ea == x.e - (n - Len(x.m)) - (IF below THEN 1 ELSE 0)
        eb == y.e - (n - Len(y.m))
        q == DivRangeBits(BitsSub(a, b), b, 54)
    IN fl(<<1>> \o q.digits \o <<IF Len(q.rem) > 0 THEN 1 ELSE 0>>, ea - eb - 55)

\* The whole number nearest to bits * 2^e, a tie to even.
RoundInt(bits, e) ==
    IF e >= 0 THEN BitsInt(bits) * 2^e
    ELSE LET k == 0 - e
             padded == IF k > Len(bits)
                       THEN [i \in 1..(k - Len(bits)) |-> 0] \o bits ELSE bits
         IN BitsInt(BitsRound(padded, Len(padded) - k))

\* Python's round(x, 2) of a float x, in hundredths: the hundredth nearest to
\* the value the double has, a tie to even.
py_round2(x) == RoundInt(BitsMul(x.m, 100), x.e)

\* numpy's round(x, 2) of a float64 x, in hundredths: rint(x * 100), the
\* product a double.
np_round2(x) == LET y == fl_mul(x, 100) IN RoundInt(y.m, y.e)

\* round((num / den) * 100, 2) on Python floats, in hundredths of a percent;
\* num and den are whole numbers, den > 0.
Round2Pct(num, den) ==
    IF num = 0 THEN 0
    ELSE IF num > 0 THEN py_round2(fl_mul(fl_div(num, den), 100))
    ELSE 0 - py_round2(fl_mul(fl_div(0 - num, den), 100))

\* round(num / den * 100, 2) on numpy.float64, in hundredths of a percent.
NpRound2Pct(num, den) ==
    IF num = 0 THEN 0
    ELSE IF num > 0 THEN np_round2(fl_mul(fl_div(num, den), 100))
    ELSE 0 - np_round2(fl_mul(fl_div(0 - num, den), 100))

(***************************************************************************)
(* The instrument universe (twstock.twse, twstock.tpex) and the provider's *)
(* coverage: only the instruments of Listed have bars, the download of any *)
(* other ticker yields an empty frame.                                     *)
(***************************************************************************)
twse == [i \in 1..(NumTwse + 1) |-> IF i <= NumTwse THEN 1100 + i ELSE 30001]
tpex == [i \in 1..NumTpex |-> 5000 + i]

Listed == {1101, 5001}
Prices == {160, 183}

\* get_all_tickers: the codes of four characters, twse first, then tpex.
IsFourChars(code) == code >= 1000 /\ code <= 9999

get_all_tickers ==
    LET tw == SelectSeq(twse, IsFourChars)
        tp == SelectSeq(tpex, IsFourChars)
    IN [i \in 1..Len(tw) |-> [code |-> tw[i], suffix |-> "TW"]]
       \o [i \in 1..Len(tp) |-> [code |-> tp[i], suffix |-> "TWO"]]

(***************************************************************************)
(* update_history_roi                                                      *)
(***************************************************************************)
targets ==
    << [bar |-> 1, field |-> "perf_1d"],
       [bar |-> 5, field |-> "perf_5d"],
       [bar |-> 10, field |-> "perf_10d"],
       [bar |-> 20, field |-> "perf_20d"],
       [bar |-> 60, field |-> "perf_60d"],
       [bar |-> 120, field |-> "perf_120d"] >>

\* lock_price = float(series.iloc[target_idx])
lock_price(qs, c, d, t, target_idx) == SeriesAt(qs, c, d, target_idx)

\* The return measured from the previous latest price instead of the buy price.
roi_of_rebased(stock, latest_price) ==
    Round2Pct(latest_price - stock.latest_price, stock.latest_price)

\* roi = round(((latest_price - buy_price) / buy_price) * 100, 2)
roi_of(stock, latest_price) ==
    Round2Pct(latest_price - stock.buy_price, stock.buy_price)

\* The milestone loop over targets[n..], for one stock.
RECURSIVE LockMilestones(_, _, _, _, _, _, _)
LockMilestones(stock, n, qs, d, t, start_idx, bars_held) ==
    IF n > Len(targets) THEN stock
    ELSE LET bar_threshold == targets[n].bar
             target_idx == start_idx + bar_threshold
             lock_roi == Round2Pct(lock_price(qs, stock.id, d, t, target_idx)
                                      - stock.buy_price, stock.buy_price)
             locked == IF bars_held >= bar_threshold /\ target_idx < SeriesLen(d, t)
                       THEN [stock EXCEPT ![targets[n].field] = Some(lock_roi)]
                       ELSE stock
         IN LockMilestones(locked, n + 1, qs, d, t, start_idx, bars_held)

\* The body of the loop over the stocks of one date key.
RefreshStock(stock, record_day, qs, d, t) ==
    IF stock.id \notin DOMAIN qs \/ SeriesLen(d, t) = 0 THEN stock
    ELSE LET len == SeriesLen(d, t)
             start_idx == searchsorted(d, t, record_day)
             bars_held == (len - 1) - start_idx
             latest_price == SeriesAt(qs, stock.id, d, len - 1)
             roi == roi_of(stock, latest_price)
             s1 == [stock EXCEPT !.days_held = Some(bars_held),
                                 !.latest_price = latest_price,
                                 !.roi = roi]
             s2 == IF len >= 2
                   THEN LET prev_price == SeriesAt(qs, stock.id, d, len - 2)
                        IN [s1 EXCEPT !.daily_change =
                                Round2Pct(latest_price - prev_price, prev_price)]
                   ELSE s1
         IN IF start_idx >= len THEN stock
            ELSE LockMilestones(s2, 1, qs, d, t, start_idx, bars_held)

RefreshDate(entry, qs, d, t) ==
    LET rd == parse_record_date(entry.key)
    IN IF rd = None THEN entry
       ELSE [entry EXCEPT !.stocks =
                [i \in 1..Len(entry.stocks) |->
                    RefreshStock(entry.stocks[i], rd[1], qs, d, t)]]

\* The refresh handing back an empty ledger when the bulk download fails.
update_history_roi_losing(h, qs, d, t, dl_ok) ==
    IF \A i \in 1..Len(h) : Len(h[i].stocks) = 0 THEN h
    ELSE IF ~dl_ok THEN <<>>
    ELSE [i \in 1..Len(h) |-> RefreshDate(h[i], qs, d, t)]

\* dl_ok: the bulk download returned a non-empty frame without raising.
update_history_roi(h, qs, d, t, dl_ok) ==
    IF \A i \in 1..Len(h) : Len(h[i].stocks) = 0 THEN h
    ELSE IF ~dl_ok THEN h
    ELSE [i \in 1..Len(h) |-> RefreshDate(h[i], qs, d, t)]

(***************************************************************************)
(* run_scanner: the scan.  The three evaluators read the OHLCV frame of    *)
(* one instrument; their verdicts are inputs of a run here.  An outcome    *)
(* says whether processing the instrument raised and which of              *)
(* check_strategy_original, check_strategy_vcp_pro, check_strategy_n_shape *)
(* matched.                                                                *)
(***************************************************************************)
batch_size == 100

Outcome(r, a, b, c) == [raises |-> r, m1 |-> a, m2 |-> b, m3 |-> c]

ScanOutcomes ==
    { Outcome(TRUE, FALSE, FALSE, FALSE) }
       \cup { Outcome(FALSE, a, b, c) : a \in BOOLEAN, b \in BOOLEAN, c \in BOOLEAN }

\* strategy_tags (the tags are written in ASCII here).
strategy_tags(oc) ==
    (IF oc.m1 THEN <<"Pullback">> ELSE <<>>)
    \o (IF oc.m2 THEN <<"Strict-VCP">> ELSE <<>>)
    \o (IF oc.m3 THEN <<"N-shape">> ELSE <<>>)

\* stock_entry.  The display fields name, group, ma5, ma10 and isValid, which
\* neither the ledger nor the archival reads, are left out; note is the list of
\* tags; type is "listed" for a .TW ticker and "otc" for a .TWO ticker.
stock_entry(ticker, oc, qs, d, t) ==
    LET len == SeriesLen(d, t)
        price == SeriesAt(qs, ticker.code, d, len - 1)
        change_rate == IF len >= 2
                       THEN LET prev_c == SeriesAt(qs, ticker.code, d, len - 2)
                            IN NpRound2Pct(price - prev_c, prev_c)
                       ELSE 0
    IN [id |-> ticker.code,
        type |-> IF ticker.suffix = "TWO" THEN "otc" ELSE "listed",
        price |-> price,
        changeRate |-> change_rate,
        note |-> strategy_tags(oc),
        buy_price |-> price,
        latest_price |-> price,
        roi |-> 0,
        daily_change |-> change_rate,
        days_held |-> None,
        perf_1d |-> None, perf_5d |-> None, perf_10d |-> None, perf_20d |-> None,
        perf_30d |-> None, perf_60d |-> None, perf_120d |-> None]

\* A loop body that lists an instrument although its processing raised.
ScanTicker_listing_raised(ticker, o, qs, d, t) ==
    IF ticker.code \notin DOMAIN qs \/ SeriesLen(d, t) = 0 THEN <<>>
    ELSE IF o[ticker.code].raises \/ o[ticker.code].m1 \/ o[ticker.code].m2
               \/ o[ticker.code].m3
         THEN <<stock_entry(ticker, o[ticker.code], qs, d, t)>>
         ELSE <<>>

\* The body of the loop over the tickers of a batch: what one ticker appends
\* to daily_results.  An exception is caught and the ticker is passed over.
ScanTicker(ticker, o, qs, d, t) ==
    IF ticker.code \notin DOMAIN qs \/ SeriesLen(d, t) = 0 THEN <<>>
    ELSE IF o[ticker.code].raises THEN <<>>
    ELSE IF o[ticker.code].m1 \/ o[ticker.code].m2 \/ o[ticker.code].m3
         THEN <<stock_entry(ticker, o[ticker.code], qs, d, t)>>
         ELSE <<>>

\* The loop over the tickers of one batch: the entries of the tickers of
\* full_list[lo..hi], in order.
ScanRange(full_list, lo, hi, o, qs, d, t) ==
    LET Appends(ticker) == Len(ScanTicker(ticker, o, qs, d, t)) > 0
        found == SelectSeq(SubSeq(full_list, lo, hi), Appends)
    IN [i \in 1..Len(found) |-> ScanTicker(found[i], o, qs, d, t)[1]]

\* for i in range(0, len(full_list), batch_size): batch number b (from 1) is
\* full_list[i:i+batch_size]; batch_ok[b] says its download did not raise.
NumBatches(full_list) == (Len(full_list) + batch_size - 1) \div batch_size

\* One pass of the loop over the batches, lines 579-661: the entries batch b
\* adds to daily_results, its frames being those the provider returns at the
\* clock (d, t) of its download; ok says the download did not raise.
run_scanner_batch(full_list, b, ok, o, qs, d, t) ==
    LET lo == (b - 1) * batch_size + 1
        hi == Min(b * batch_size, Len(full_list))
    IN IF ok THEN ScanRange(full_list, lo, hi, o, qs, d, t) ELSE <<>>

(***************************************************************************)
(* run_scanner: archival of the new matches into the ledger.               *)
(***************************************************************************)
\* The session taken to end before 13:30:00.
is_market_session_open_end(t) == market_open <= t /\ t < market_close

is_market_session(t) == market_open <= t /\ t <= market_close

\* The archival date taken to be the run's own date at every time of day.
record_date_str_today(d, t) == strftime_ymd(d)

record_date_str(d, t) ==
    IF t > market_close THEN strftime_ymd(d) ELSE strftime_ymd(d - 1)

\* existing_ids
existing_ids(h) ==
    UNION {{h[i].stocks[j].id : j \in 1..Len(h[i].stocks)} : i \in 1..Len(h)}

\* The new matches committed without the duplicate filter.
unique_results_unfiltered(h, results) == results

\* unique_results
unique_results(h, results) ==
    LET Fresh(stock) == stock.id \notin existing_ids(h)
    IN SelectSeq(results, Fresh)

\* history_db[record_date_str] = unique_results
SetKey(h, key, stocks) ==
    IF \E i \in 1..Len(h) : h[i].key = key
    THEN [i \in 1..Len(h) |-> IF h[i].key = key THEN [key |-> key, stocks |-> stocks]
                              ELSE h[i]]
    ELSE Append(h, [key |-> key, stocks |-> stocks])

\* dict(sorted(history_db.items(), reverse=True)): by key, descending.
RECURSIVE sorted_history(_)
sorted_history(h) ==
    IF Len(h) = 0 THEN <<>>
    ELSE LET top == CHOOSE i \in 1..Len(h) : \A j \in 1..Len(h) : h[j].key <= h[i].key
             rest == [j \in 1..(Len(h) - 1) |-> IF j < top THEN h[j] ELSE h[j + 1]]
         IN <<h[top]>> \o sorted_history(rest)

\* The ledger document after the archival step of a run that found
\* results, h being the refreshed ledger already saved.
Archive(h, results, d, t) ==
    IF is_market_session(t) THEN h
    ELSE IF Len(results) = 0 THEN h
    ELSE LET fresh == unique_results(h, results)
         IN IF Len(fresh) = 0 THEN h
            ELSE sorted_history(SetKey(h, record_date_str(d, t), fresh))

\* The archival step writes the ledger: the run is outside the session and
\* found a match that is not on file.
Archives(h, results, t) ==
    /\ ~is_market_session(t)
    /\ Len(results) > 0
    /\ Len(unique_results(h, results)) > 0

\* A save_json call: the file and the document written.
SaveHistory(h) == [file |-> "history.json", ledger |-> h, list |-> <<>>]
SaveData(list) == [file |-> "data.json", ledger |-> <<>>, list |-> list]

\* history.json after the save_json calls svs, disk being what it held before.
RECURSIVE Saved(_, _)
Saved(disk, svs) ==
    IF Len(svs) = 0 THEN disk
    ELSE IF svs[Len(svs)].file = "history.json" THEN svs[Len(svs)].ledger
    ELSE Saved(disk, SubSeq(svs, 1, Len(svs) - 1))

\* The refresh left for later: nothing is refreshed or saved before the scan.
run_scanner_refresh_deferred(h, qs, d, t, dl_ok) == [history_db |-> h, saves |-> <<>>]

\* Lines 568-569: the ledger in memory is refreshed from the series the
\* provider returns at the clock (d, t) of the bulk download, and saved.
run_scanner_refresh(h, qs, d, t, dl_ok) ==
    LET refreshed == update_history_roi(h, qs, d, t, dl_ok)
    IN [history_db |-> refreshed, saves |-> <<SaveHistory(refreshed)>>]

\* Lines 664-711: the today document is saved, then the archival and its save;
\* (d, t) is now, the clock reading taken when the run began, and h the ledger
\* in memory (the industry cache, which nothing here reads, is left out).
run_scanner_finish(h, results, d, t) ==
    LET data_payload == [date |-> Some(<<strftime_ymd(d), t>>),
                         source |-> "GitHub Actions",
                         list |-> results]
        archived == Archive(h, results, d, t)
    IN [data |-> data_payload,
        saves |-> <<SaveData(results)>>
                  \o (IF Archives(h, results, t)
                      THEN <<SaveHistory(archived)>> ELSE <<>>)]

(***************************************************************************)
(* The three evaluators.  A frame df is the sequence of the bars of one    *)
(* instrument, oldest first, each bar a record of Open, High, Low, Close   *)
(* and Volume (whole numbers, none negative).  s.iloc[-k] is the k-th bar  *)
(* from the end, s.rolling(n).mean().iloc[-1] the sum of the last n bars   *)
(* over n, which is NaN when the frame has fewer than n bars.  An          *)
(* evaluator returns (False, None), returns (True, info), or raises.       *)
(*                                                                         *)
(* The evaluators compute on doubles.  The sum of a window of whole        *)
(* numbers is exact and its mean is the double fl_div(sum, n).  A          *)
(* comparison between two means, between a whole number and a mean,        *)
(* between one quotient of whole numbers and a decimal constant, or        *)
(* between a whole number and the product of a whole number by one of the  *)
(* constants 0.5, 0.75, 0.91, 0.97, 0.98, 1.02 and 1.3, has the outcome    *)
(* the exact values have: two different exact values are further apart     *)
(* than the roundings can move them, equal ones round to equal doubles,    *)
(* and the doubles of these constants are within 2^-54 of them; these      *)
(* comparisons are made on cross-multiplied whole numbers.  The two        *)
(* quotients that divide a difference by a mean, bias_ma60 and             *)
(* ma_divergence, are computed on the doubles, step by step: there the     *)
(* rounding of the mean decides on which side of the constant an exact tie *)
(* falls.  The 20-bar deviation of the band width is taken exactly.        *)
(***************************************************************************)
NoMatch == [raised |-> FALSE, matched |-> FALSE, info |-> None]
Raised == [raised |-> TRUE, matched |-> FALSE, info |-> None]
Matched(tag, price) ==
    [raised |-> FALSE, matched |-> TRUE, info |-> Some([tag |-> tag, price |-> price])]

\* s.iloc[-k] of column col (the frame has at least k bars).
iloc(frame, col, k) == frame[Len(frame) + 1 - k][col]

\* Sums and extrema of a column over the bars lo..hi, by halves.
RECURSIVE SumRange(_, _, _, _)
SumRange(frame, col, lo, hi) ==
    IF lo > hi THEN 0
    ELSE IF lo = hi THEN frame[lo][col]
    ELSE LET mid == (lo + hi) \div 2
         IN SumRange(frame, col, lo, mid) + SumRange(frame, col, mid + 1, hi)

RECURSIVE SumSqRange(_, _, _, _)
SumSqRange(frame, col, lo, hi) ==
    IF lo > hi THEN 0
    ELSE IF lo = hi THEN frame[lo][col] * frame[lo][col]
    ELSE LET mid == (lo + hi) \div 2
         IN SumSqRange(frame, col, lo, mid) + SumSqRange(frame, col, mid + 1, hi)

RECURSIVE MaxRange(_, _, _, _)
MaxRange(frame, col, lo, hi) ==
    IF lo = hi THEN frame[lo][col]
    ELSE LET mid == (lo + hi) \div 2
         IN Max(MaxRange(frame, col, lo, mid), MaxRange(frame, col, mid + 1, hi))

RECURSIVE MinRange(_, _, _, _)
MinRange(frame, col, lo, hi) ==
    IF lo = hi THEN frame[lo][col]
    ELSE LET mid == (lo + hi) \div 2
         IN Min(MinRange(frame, col, lo, mid), MinRange(frame, col, mid + 1, hi))

\* n times s.rolling(n).mean().iloc[-1 - back]: the sum of the n bars that end
\* back bars before the last one (the frame has at least n + back bars).
RollSum(frame, col, n, back) ==
    SumRange(frame, col, Len(frame) - back - n + 1, Len(frame) - back)

\* s.iloc[-n:].max() and .min(): over the last n bars, or all when fewer.
TailMax(frame, col, n) == MaxRange(frame, col, Max(1, Len(frame) - n + 1), Len(frame))
TailMin(frame, col, n) == MinRange(frame, col, Max(1, Len(frame) - n + 1), Len(frame))

\* a / b > c / d for whole numbers a, c >= 0 and b, d > 0, by the continued
\* fractions of the two quotients (no product is formed).
RECURSIVE FracGt(_, _, _, _)
FracGt(a, b, c, d) ==
    IF a \div b # c \div d THEN a \div b > c \div d
    ELSE IF a % b = 0 THEN FALSE
    ELSE IF c % d = 0 THEN TRUE
    ELSE FracGt(d, c % d, b, a % b)

\* The frame is shorter than the window the evaluator asks for.
too_short_never(frame, window) == FALSE

too_short(frame, window) == Len(frame) < window

\* The two risk exclusions shared by evaluators A and B, for a close above 0:
\* a long upper shadow without a lower one, and a low more than 1.5% under the
\* previous low.
shadow_excluded(curr_c, curr_o, curr_h, curr_l) ==
    LET upper_shadow == curr_h - Max(curr_c, curr_o)
        lower_shadow == Min(curr_c, curr_o) - curr_l
    IN upper_shadow * 1000 > 2 * curr_c /\ lower_shadow * 1000 < curr_c

low_excluded(prev_l, curr_l) ==
    prev_l > 0 /\ (prev_l - curr_l) * 1000 > 15 * prev_l

check_strategy_original(frame) ==
    IF too_short(frame, 310) THEN NoMatch
    ELSE IF Len(frame) < 2 THEN Raised
    ELSE LET curr_c == iloc(frame, "Close", 1)
             curr_o == iloc(frame, "Open", 1)
             curr_h == iloc(frame, "High", 1)
             curr_v == iloc(frame, "Volume", 1)
             curr_l == iloc(frame, "Low", 1)
             prev_c == iloc(frame, "Close", 2)
             prev_l == iloc(frame, "Low", 2)
             s5 == RollSum(frame, "Close", 5, 0)
             s10 == RollSum(frame, "Close", 10, 0)
             s12 == RollSum(frame, "Close", 12, 0)
             s20 == RollSum(frame, "Close", 20, 0)
             s60 == RollSum(frame, "Close", 60, 0)
             s120 == RollSum(frame, "Close", 120, 0)
             s240 == RollSum(frame, "Close", 240, 0)
             s300 == RollSum(frame, "Close", 300, 0)
             v5 == RollSum(frame, "Volume", 5, 0)
             curr_ma5 == fl_div(s5, 5)
             curr_ma10 == fl_div(s10, 10)
             curr_ma20 == fl_div(s20, 20)
             curr_ma60 == fl_div(s60, 60)
             bias_ma60 == fl_divide(fl_sub(float(curr_c), curr_ma60), curr_ma60)
             max_mas == fl_max(curr_ma5, fl_max(curr_ma10, curr_ma20))
             min_mas == fl_min(curr_ma5, fl_min(curr_ma10, curr_ma20))
             ma_divergence == fl_divide(fl_sub(max_mas, min_mas), min_mas)
             body == IF curr_c >= curr_o THEN curr_c - curr_o ELSE curr_o - curr_c
         IN IF curr_c = 0 THEN Raised
            ELSE IF shadow_excluded(curr_c, curr_o, curr_h, curr_l) THEN NoMatch
            ELSE IF low_excluded(prev_l, curr_l) THEN NoMatch
            ELSE IF Len(frame) < 20 THEN Raised
            ELSE IF curr_c < iloc(frame, "Close", 20) THEN NoMatch
            ELSE IF Len(frame) < 300 THEN NoMatch
            ELSE IF 300 * curr_c < s300 THEN NoMatch
            ELSE IF v5 < 5 * 1000000 THEN NoMatch
            ELSE IF 120 * curr_c <= s120 \/ 60 * curr_c <= s60 THEN NoMatch
            ELSE IF ~(6 * s10 > s60 /\ 2 * s60 > s120 /\ 2 * s120 > s240) THEN NoMatch
            ELSE IF fl_cmp(bias_ma60, fl_div(25, 100)) >= 0 THEN NoMatch
            ELSE IF fl_cmp(ma_divergence, fl_div(8, 100)) >= 0 THEN NoMatch
            ELSE IF 5 * curr_v >= v5 THEN NoMatch
            ELSE IF 12 * curr_c <= s12 THEN NoMatch
            ELSE IF prev_c = 0 THEN Raised
            ELSE IF 1000 * (curr_h - curr_l) >= 45 * prev_c THEN NoMatch
            ELSE IF 1000 * body >= 25 * prev_c THEN NoMatch
            ELSE Matched("Pullback", curr_c)

\* calc_retrace of the last n closes, as the pair <<peak - trough, peak>>,
\* and r(a) > r(b) for two such pairs (1.0 when the peak is not above 0).
calc_retrace(frame, n) ==
    LET peak == TailMax(frame, "Close", n)
        trough == TailMin(frame, "Close", n)
    IN IF peak > 0 THEN <<peak - trough, peak>> ELSE <<1, 1>>

retrace_gt(ra, rb) == ra[1] * rb[2] > rb[1] * ra[2]

\* 20-bar band width above 15%: (bb_upper - bb_lower) / ma20 = 4 * std20 / ma20
\* with std20 the sample deviation, so width > 0.15 is
\* 128000 * (20 * sum of squares - square of sum) > 171 * square of sum.
bb_width_exceeds(frame) ==
    LET s == RollSum(frame, "Close", 20, 0)
        q == SumSqRange(frame, "Close", Len(frame) - 19, Len(frame))
    IN FracGt(20 * q - s * s, 171, s * s, 128000)

check_strategy_vcp_pro(frame) ==
    IF too_short(frame, 310) THEN NoMatch
    ELSE IF Len(frame) < 2 THEN NoMatch
    ELSE LET curr_c == iloc(frame, "Close", 1)
             curr_o == iloc(frame, "Open", 1)
             curr_h == iloc(frame, "High", 1)
             curr_l == iloc(frame, "Low", 1)
             curr_v == iloc(frame, "Volume", 1)
             prev_l == iloc(frame, "Low", 2)
             s20 == RollSum(frame, "Close", 20, 0)
             s60 == RollSum(frame, "Close", 60, 0)
             s120 == RollSum(frame, "Close", 120, 0)
             s150 == RollSum(frame, "Close", 150, 0)
             s200 == RollSum(frame, "Close", 200, 0)
             s240 == RollSum(frame, "Close", 240, 0)
             s300 == RollSum(frame, "Close", 300, 0)
             v5 == RollSum(frame, "Volume", 5, 0)
             v20 == RollSum(frame, "Volume", 20, 0)
             r1 == calc_retrace(frame, 60)
             r2 == calc_retrace(frame, 20)
             r3 == calc_retrace(frame, 10)
         IN IF curr_c = 0 THEN NoMatch
            ELSE IF shadow_excluded(curr_c, curr_o, curr_h, curr_l) THEN NoMatch
            ELSE IF low_excluded(prev_l, curr_l) THEN NoMatch
            ELSE IF Len(frame) < 20 THEN NoMatch
            ELSE IF curr_c < iloc(frame, "Close", 20) THEN NoMatch
            ELSE IF Len(frame) < 300 \/ 300 * curr_c < s300 THEN NoMatch
            ELSE IF 60 * curr_c <= s60 THEN NoMatch
            ELSE IF ~(2 * s60 > s120 /\ 2 * s120 > s240) THEN NoMatch
            ELSE IF curr_v < 1000000 THEN NoMatch
            ELSE IF 200 * curr_c < s200 THEN NoMatch
            ELSE IF s200 <= RollSum(frame, "Close", 200, 19) THEN NoMatch
            ELSE IF 150 * curr_c < s150 THEN NoMatch
            ELSE IF 10 * curr_c < 13 * TailMin(frame, "Close", 250) THEN NoMatch
            ELSE IF 4 * curr_c < 3 * TailMax(frame, "Close", 250) THEN NoMatch
            ELSE IF bb_width_exceeds(frame) THEN NoMatch
            ELSE IF 1000 * curr_c < 49 * s20 THEN NoMatch
            ELSE IF 4 * v5 > v20 THEN NoMatch
            ELSE IF v5 < 5 * 300000 THEN NoMatch
            ELSE IF ~(retrace_gt(r1, r2) /\ retrace_gt(r2, r3)) THEN NoMatch
            ELSE Matched("Strict-VCP", curr_c)

\* np.argmax over high.iloc[-30:-3]: the first bar (numbered from 1) of
\* frame[lo..hi] that holds the maximum.
argmax_high(frame, lo, hi) ==
    LET top == MaxRange(frame, "High", lo, hi)
    IN CHOOSE i \in lo..hi :
          /\ frame[i].High = top
          /\ \A j \in lo..(i - 1) : frame[j].High # top

check_strategy_n_shape(frame) ==
    IF too_short(frame, 250) THEN NoMatch
    ELSE IF Len(frame) < 2 THEN NoMatch
    ELSE LET n == Len(frame)
             curr_c == iloc(frame, "Close", 1)
             curr_v == iloc(frame, "Volume", 1)
             prev_v == iloc(frame, "Volume", 2)
         IN IF n < 240 \/ 240 * curr_c < RollSum(frame, "Close", 240, 0) THEN NoMatch
            ELSE IF ~(2 * RollSum(frame, "Close", 60, 0) > RollSum(frame, "Close", 120, 0))
                 THEN NoMatch
            ELSE LET s5 == RollSum(frame, "Close", 5, 0)
                     s10 == RollSum(frame, "Close", 10, 0)
                     peak_abs_pos == argmax_high(frame, n - 29, n - 3)
                     peak_high == frame[peak_abs_pos].High
                     pullback_low == MinRange(frame, "Low", peak_abs_pos, n - 1)
                     historical_high == MaxRange(frame, "High", 1, n)
                     near_peak == 100 * curr_c >= 91 * peak_high
                                  /\ 100 * curr_c <= 102 * peak_high
                     short_trend_up == 5 * curr_c > s5 /\ 10 * curr_c > s10
                     not_overextended == s5 > 0 /\ 40 * (5 * curr_c - s5) <= s5
                     volume_contraction == 2 * curr_v <= prev_v
                 IN IF 100 * peak_high < 97 * historical_high THEN NoMatch
                    ELSE IF pullback_low <= 0 THEN NoMatch
                    ELSE IF 100 * peak_high < 108 * pullback_low THEN NoMatch
                    ELSE IF RollSum(frame, "Volume", 5, 0) < 5 * 800000 THEN NoMatch
                    ELSE IF near_peak /\ short_trend_up /\ not_overextended
                            /\ volume_contraction
                         THEN Matched("N-shape", curr_c)
                         ELSE NoMatch

\* is_match_1, is_match_2, is_match_3 of one instrument of the scan: the
\* outcome the frame of the instrument gives.
EvalOutcome(frame) ==
    LET a == check_strategy_original(frame)
        b == check_strategy_vcp_pro(frame)
        c == check_strategy_n_shape(frame)
    IN Outcome(a.raised, a.matched, b.matched, c.matched)

(***************************************************************************)
(* The state machine.                                                      *)
(***************************************************************************)
\* The times of day the clock visits: 08:59:59, 09:00:00, 13:30:00, 13:30:01.
Slots == <<32399, 32400, 48600, 48601>>

\* Lengths in days of the successive long idle periods: a week, 25 weeks,
\* then a little more than the lookback of the provider each time.
Jumps == <<7, 175, 731>>

\* Nothing is known yet of the failures and matches of a run.
NoRun ==
    [dl_ok |-> TRUE, batch_ok |-> <<>>, raised |-> {}, matched |-> {},
     outcome |-> [c \in {} |-> Outcome(FALSE, FALSE, FALSE, FALSE)]]

Idle ==
    /\ pc = "idle"
    /\ now = None
    /\ mem_db = None
    /\ batch_no = 0
    /\ daily_results = <<>>

Init ==
    /\ day = 0
    /\ tod = Slots[1]
    /\ quotes = [c \in Listed |-> <<[from |-> Monday0, px |-> 160]>>]
    /\ history_db = <<>>
    /\ data_json = [date |-> None, source |-> "", list |-> <<>>]
    /\ last_run = NoRun
    /\ runs = 0
    /\ moves = 0
    /\ ticks = 0
    /\ skips = 0
    /\ matches = 0
    /\ saves = <<>>
    /\ Idle
    /\ df = <<>>
    /\ verdict = None

\* The clock moves on to the next time of day, whether a run is under way
\* (in a download, or in the sleep after a batch) or not; at most max times.
Tick(max) ==
    /\ ticks < max
    /\ ticks' = ticks + 1
    /\ \E i \in 1..Len(Slots) :
          /\ tod = Slots[i]
          /\ IF i < Len(Slots)
             THEN tod' = Slots[i + 1] /\ day' = day
             ELSE tod' = Slots[1] /\ day' = day + 1
    /\ UNCHANGED <<quotes, history_db, data_json, last_run, runs, moves, skips, matches, saves,
                   pc, now, mem_db, batch_no, daily_results, df, verdict>>

\* A long period in which the job does not run, once the clock has gone
\* through the times of day of the first days.
SkipDays ==
    /\ pc = "idle"
    /\ ticks = MaxTicksLong
    /\ skips < MaxSkips
    /\ skips' = skips + 1
    /\ day' = day + Jumps[Min(skips + 1, Len(Jumps))]
    /\ UNCHANGED <<tod, quotes, history_db, data_json, last_run, runs, moves, ticks, matches, saves,
                   pc, now, mem_db, batch_no, daily_results, df, verdict>>

\* The provider's close of instrument c becomes p, from the bar that is not
\* final yet: today's until the session has closed, the next one afterwards.
PriceMove ==
    /\ moves < MaxMoves
    /\ moves' = moves + 1
    /\ \E c \in Listed, p \in Prices :
          LET q == quotes[c]
              from == IF tod <= market_close THEN day ELSE day + 1
          IN /\ p # q[Len(q)].px
             /\ quotes' = [quotes EXCEPT ![c] =
                   IF q[Len(q)].from = from
                   THEN [q EXCEPT ![Len(q)].px = p]
                   ELSE Append(q, [from |-> from, px |-> p])]
    /\ UNCHANGED <<day, tod, history_db, data_json, last_run, runs, ticks, skips, matches, saves,
                   pc, now, mem_db, batch_no, daily_results, df, verdict>>

\* The batch (from 1) that holds the ticker of code c.
BatchOf(c) ==
    LET i == CHOOSE k \in 1..Len(get_all_tickers) : get_all_tickers[k].code = c
    IN ((i - 1) \div batch_size) + 1

\* The instruments of batch b the provider has bars for.
ListedIn(b) == {c \in Listed : BatchOf(c) = b}

\* Lines 563-566: run_scanner begins (at most max times); the clock is read,
\* once, and the ledger is loaded from history.json.
StartRun(max) ==
    /\ pc = "idle"
    /\ runs < max
    /\ pc' = "refresh"
    /\ now' = <<day, tod>>
    /\ mem_db' = Some(history_db)
    /\ last_run' = NoRun
    /\ saves' = <<>>
    /\ UNCHANGED <<day, tod, quotes, history_db, data_json, runs, moves, ticks, skips, matches,
                   batch_no, daily_results, df, verdict>>

\* Lines 568-569: the bulk download of the refresh returns, at the clock's
\* present time, and the refreshed ledger is saved.  The download is not
\* attempted for a ledger without stocks (dl_ok is taken to be TRUE then).
Refresh ==
    /\ pc = "refresh"
    /\ \E dl_ok \in BOOLEAN :
          LET res == run_scanner_refresh(mem_db[1], quotes, day, tod, dl_ok)
          IN /\ (\A i \in 1..Len(mem_db[1]) : Len(mem_db[1][i].stocks) = 0) => dl_ok
             /\ mem_db' = Some(res.history_db)
             /\ history_db' = Saved(history_db, res.saves)
             /\ saves' = saves \o res.saves
             /\ last_run' = [last_run EXCEPT !.dl_ok = dl_ok]
    /\ pc' = "scan"
    /\ batch_no' = 1
    /\ UNCHANGED <<day, tod, quotes, data_json, runs, moves, ticks, skips, matches, now,
                   daily_results, df, verdict>>

\* Lines 579-661 for batch batch_no: its download returns, at the clock's
\* present time, and its tickers are processed; ok and o are the outcome of
\* the download and of the instruments; n is the number of instruments of the
\* batch that are processed and matched, at most max in a behaviour.  The run then waits (time.sleep, line
\* 662) before the download of the next batch or, after the last batch,
\* before lines 664-713.
Batch(ok, o, max) ==
    LET found == daily_results
                    \o run_scanner_batch(get_all_tickers, batch_no, ok, o, quotes, day, tod)
        n == IF ok THEN Cardinality({c \in DOMAIN o :
                                        o[c].m1 \/ o[c].m2 \/ o[c].m3})
             ELSE 0
    IN /\ pc = "scan"
       /\ matches + n <= max
       /\ matches' = matches + n
       /\ last_run' = [last_run EXCEPT
                          !.batch_ok = Append(@, ok),
                          !.raised = @ \cup {c \in DOMAIN o : o[c].raises},
                          !.matched = @ \cup {c \in DOMAIN o :
                                                 o[c].m1 \/ o[c].m2 \/ o[c].m3},
                          !.outcome = o @@ @]
       /\ daily_results' = found
       /\ IF batch_no < NumBatches(get_all_tickers)
          THEN batch_no' = batch_no + 1 /\ pc' = pc
          ELSE batch_no' = batch_no /\ pc' = "finish"
       /\ UNCHANGED <<day, tod, quotes, history_db, data_json, runs, moves, ticks,
                      skips, saves, now, mem_db, df, verdict>>

\* A batch with every failure.  The tickers of a batch whose download failed
\* are not processed (they are taken to be instruments the evaluators would
\* have matched).
ScanBatch ==
    \E ok \in BOOLEAN, o \in [ListedIn(batch_no) -> ScanOutcomes] :
       /\ ~ok => \A c \in DOMAIN o : o[c] = Outcome(FALSE, FALSE, TRUE, TRUE)
       /\ Batch(ok, o, MaxMatches)

\* A batch that meets no failure: it is downloaded and no instrument raises.
ScanBatchClean ==
    \E o \in [ListedIn(batch_no) -> {oc \in ScanOutcomes : ~oc.raises}] :
       Batch(TRUE, o, MaxMatchesLong)

\* Lines 664-713, after the loop over the batches: data.json is written with
\* the clock reading taken at the start, and outside the session the new
\* matches are filed and history.json is saved.  Neither the clock nor the
\* provider is read.
Finish ==
    LET res == run_scanner_finish(mem_db[1], daily_results, now[1], now[2])
    IN /\ pc = "finish"
       /\ data_json' = res.data
       /\ history_db' = Saved(history_db, res.saves)
       /\ saves' = saves \o res.saves
       /\ runs' = runs + 1
       /\ pc' = "idle"
       /\ now' = None
       /\ mem_db' = None
       /\ batch_no' = 0
       /\ daily_results' = <<>>
       /\ UNCHANGED <<day, tod, quotes, last_run, moves, ticks, skips, matches, df, verdict>>

\* The job over its first days, at every time of day, with every failure.
Next ==
    Tick(MaxTicks) \/ PriceMove \/ StartRun(MaxRuns) \/ Refresh \/ ScanBatch \/ Finish

Spec == Init /\ [][Next]_vars

\* The job over long holding periods.
NextLong ==
    \/ Tick(MaxTicksLong) \/ SkipDays \/ PriceMove \/ StartRun(MaxRunsLong)
    \/ Refresh \/ ScanBatchClean \/ Finish

SpecLong == Init /\ [][NextLong]_vars

(***************************************************************************)
(* The evaluators on their own: a frame is drawn and the three evaluators  *)
(* are applied to it, as the scan does for each instrument.                *)
(***************************************************************************)
\* The frames: n bars whose close rises by step a bar from p0 and then stays
\* flat for the last flat bars; Open and High are the close, and so is Low but
\* for the bar before the last one, whose low is wick under its close; the
\* volume is 2,000,000 shares on the rising bars and v_lo on the flat ones.
Frame(n, flat, v_lo, wick, p0, step) ==
    LET rise == Max(0, n - flat)
        close(i) == p0 + step * Min(i, rise)
    IN [i \in 1..n |->
          [Open |-> close(i), High |-> close(i),
           Low |-> IF i = n - 1 THEN Max(0, close(i) - wick) ELSE close(i),
           Close |-> close(i),
           Volume |-> IF i > rise THEN v_lo ELSE 2000000]]

\* The lengths drawn: around every window the evaluators use, up to MaxBars.
Lengths == {0, 1, 2, 19, 20, 249, 250, 299, 300} \cup 309..MaxBars

\* A pullback frame of 310 bars: 250 bars at 500, then 40 bars whose closes
\* sum to 28 * c + 19 (39 equal ones and a last one with the rest), then 19
\* bars at c - 1 and a last bar at c, every bar without shadow; 2,000,000
\* shares a bar, 1,000,000 on the last.  The last 60 closes sum to 48 * c: the
\* close is 25% above the 60-bar mean, exactly.
PullbackFrame(c) ==
    LET base == (28 * c + 19) \div 40
        close(i) == IF i <= 250 THEN 500
                    ELSE IF i <= 289 THEN base
                    ELSE IF i = 290 THEN 28 * c + 19 - 39 * base
                    ELSE IF i < 310 THEN c - 1
                    ELSE c
    IN [i \in 1..310 |->
          [Open |-> close(i), High |-> close(i), Low |-> close(i), Close |-> close(i),
           Volume |-> IF i = 310 THEN 1000000 ELSE 2000000]]

Frames ==
    { Frame(n, flat, v_lo, wick, ps[1], ps[2]) :
         n \in Lengths, flat \in {0, 1, 10}, v_lo \in {400000, 1000000},
         wick \in {0, 40}, ps \in {<<100, 1>>, <<0, 0>>} }
    \cup { PullbackFrame(c) : c \in 999..1006 }

InitEval ==
    /\ day = 0
    /\ tod = Slots[1]
    /\ quotes = [c \in Listed |-> <<[from |-> Monday0, px |-> 160]>>]
    /\ history_db = <<>>
    /\ data_json = [date |-> None, source |-> "", list |-> <<>>]
    /\ last_run = NoRun
    /\ runs = 0
    /\ moves = 0
    /\ ticks = 0
    /\ skips = 0
    /\ matches = 0
    /\ saves = <<>>
    /\ Idle
    /\ df \in Frames
    /\ verdict = None

\* Lines 601-603 of the scan: the three evaluators applied to the frame.
Evaluate ==
    /\ verdict = None
    /\ verdict' = Some([original |-> check_strategy_original(df),
                        vcp_pro |-> check_strategy_vcp_pro(df),
                        n_shape |-> check_strategy_n_shape(df)])
    /\ UNCHANGED <<day, tod, quotes, history_db, data_json, last_run, runs, moves,
                   ticks, skips, matches, saves, pc, now, mem_db, batch_no, daily_results, df>>

NextEval == Evaluate

SpecEval == InitEval /\ [][NextEval]_vars

(***************************************************************************)
(* Vocabulary of the properties.                                           *)
(***************************************************************************)
\* The positions <<i, j>> of the ledger's entries.
Positions(h) == UNION {{<<i, j>> : j \in 1..Len(h[i].stocks)} : i \in 1..Len(h)}

\* The instrument ids on file, and the pairs <<date key, id>> on file.
LedgerIds(h) == {h[p[1]].stocks[p[2]].id : p \in Positions(h)}
Filed(h) == {<<h[p[1]].key, h[p[1]].stocks[p[2]].id>> : p \in Positions(h)}
LedgerKeys(h) == {h[i].key : i \in 1..Len(h)}

\* The entry filed under date key k for instrument c (when there is one).
EntryOf(h, k, c) ==
    LET p == CHOOSE q \in Positions(h) : h[q[1]].key = k /\ h[q[1]].stocks[q[2]].id = c
    IN h[p[1]].stocks[p[2]]

ListIds(list) == {list[i].id : i \in 1..Len(list)}

\* The steps of a run: the refresh and its save, the scan of one batch, and
\* the end of the run (with the scan of the last batch).
IsRefresh == pc = "refresh" /\ pc' = "scan"
IsBatch == pc = "scan" /\ (batch_no' = batch_no + 1 \/ pc' = "finish")
IsFinish == pc = "finish" /\ pc' = "idle"

\* The trading session, 09:00:00 to 13:30:00 inclusive.
InSession(t) == 9 * 3600 <= t /\ t <= 13 * 3600 + 30 * 60

\* The key "YYYY/MM/DD" of the dates around the start of the clock (2024-01-01).
KeyOfDay(d) == IF d < 0 THEN 20231232 + d ELSE 20240101 + d

\* The date of a key filed in the first days of the clock.
DayOfKey(k) == CHOOSE d \in (0 - 1)..27 : KeyOfDay(d) = k

\* C1. Every instrument id is on file at most once in the whole ledger: never
\* twice under one date key, never under two date keys (and a date key heads
\* one list only).
C1_OneEntryPerId ==
    /\ \A p, q \in Positions(history_db) :
          history_db[p[1]].stocks[p[2]].id = history_db[q[1]].stocks[q[2]].id => p = q
    /\ \A i, j \in 1..Len(history_db) : history_db[i].key = history_db[j].key => i = j

\* A run outside the session has just matched again an instrument that is on
\* file under an earlier date key than the one the run files under.
C1_Witness ==
    /\ runs >= 2
    /\ pc = "idle"
    /\ ~InSession(data_json.date[1][2])
    /\ \E i \in 1..Len(data_json.list) :
          \E f \in Filed(history_db) :
             /\ f[2] = data_json.list[i].id
             /\ f[1] < (IF data_json.date[1][2] > 13 * 3600 + 30 * 60
                        THEN data_json.date[1][1]
                        ELSE KeyOfDay(DayOfKey(data_json.date[1][1]) - 1))

\* C2. The ledger is append-only and merge-on-write: every entry on file before
\* a step is on file under the same date key after it.
C2_AppendOnly ==
    [][Filed(history_db) \subseteq Filed(history_db')]_vars

\* C3. First-seen wins: an instrument on file under a date key with a buy
\* price stays on file under that key with that buy price, and under no other.
C3_FirstSeenWins ==
    [][\A f \in Filed(history_db) :
          /\ f \in Filed(history_db')
          /\ EntryOf(history_db', f[1], f[2]).buy_price
                = EntryOf(history_db, f[1], f[2]).buy_price
          /\ \A g \in Filed(history_db') : g[2] = f[2] => g[1] = f[1]]_vars

\* C4. T+1 rule: an entry whose latest refresh saw zero bars held has roi 0.
C4_ZeroBarsZeroRoi ==
    \A p \in Positions(history_db) :
       history_db[p[1]].stocks[p[2]].days_held = Some(0)
          => history_db[p[1]].stocks[p[2]].roi = 0

MilestoneFields == {"perf_1d", "perf_5d", "perf_10d", "perf_20d", "perf_60d", "perf_120d"}

\* C5. Milestone locking is permanent: a milestone field that holds a value
\* keeps that value in every later state of the entry.
C5_MilestoneLocked ==
    [][\A f \in Filed(history_db) \cap Filed(history_db') :
          \A fld \in MilestoneFields :
             EntryOf(history_db, f[1], f[2])[fld] # None
                => EntryOf(history_db', f[1], f[2])[fld]
                      = EntryOf(history_db, f[1], f[2])[fld]]_vars

\* entryIdx: the position of the bar of the entry date rd, a trading day, in
\* the series of the instrument, its bars numbered from 1 whatever part of
\* them a download returns.
EntryIdx(rd) == BarCount(rd)

\* r is num / den * 100 rounded to 2 decimals, in hundredths of a percent: a
\* hundredth nearest to the quotient (either of the two when the quotient lies
\* midway between them).
IsPctOf(r, num, den) ==
    LET dist == IF r * den >= num * 10000 THEN r * den - num * 10000
                ELSE num * 10000 - r * den
    IN 2 * dist <= den

Checkpoints ==
    { <<1, "perf_1d">>, <<5, "perf_5d">>, <<10, "perf_10d">>,
      <<20, "perf_20d">>, <<60, "perf_60d">>, <<120, "perf_120d">> }

\* C6. Milestone value: for an entry whose entry date has a bar, after a
\* refresh in which it has been held k bars or more, the field of checkpoint k
\* is the return of the bar at entryIdx + k on the entry price, rounded to 2
\* decimals, entryIdx being the position of the entry date's bar in the series
\* of the instrument; while fewer than k bars have been held an unset field
\* stays unset, and a newly committed entry has none set.
C6_MilestoneValue ==
    [][/\ (IsRefresh /\ last_run'.dl_ok) =>
             \A f \in Filed(history_db) \cap Filed(history_db') :
                LET before == EntryOf(history_db, f[1], f[2])
                    after == EntryOf(history_db', f[1], f[2])
                    rd == parse_record_date(f[1])[1]
                    entryIdx == EntryIdx(rd)
                    barsHeld == BarCount(LastBarDay(day, tod)) - entryIdx
                IN IsTradingDay(rd) =>
                      \A cp \in Checkpoints :
                         IF barsHeld >= cp[1]
                         THEN /\ after[cp[2]] # None
                              /\ IsPctOf(after[cp[2]][1],
                                         CloseOn(quotes, f[2], BarDay(entryIdx + cp[1]))
                                            - before.buy_price,
                                         before.buy_price)
                         ELSE before[cp[2]] = None => after[cp[2]] = None
       /\ \A f \in Filed(history_db') \ Filed(history_db) :
             \A cp \in Checkpoints : EntryOf(history_db', f[1], f[2])[cp[2]] = None]_vars

\* C7. Refresh idempotence: with the provider's series unchanged, a second
\* refresh right after the refresh of a run leaves roi, latest_price,
\* daily_change and days_held of every entry as the first left them, and
\* changes no milestone field the first had set.
C7_RefreshIdempotent ==
    [][(IsRefresh /\ last_run'.dl_ok) =>
          \A h1 \in {history_db'} :
          \A h2 \in {update_history_roi(h1, quotes, day, tod, TRUE)} :
             /\ Positions(h2) = Positions(h1)
             /\ \A p \in Positions(h1) :
                   LET e1 == h1[p[1]].stocks[p[2]]
                       e2 == h2[p[1]].stocks[p[2]]
                   IN /\ e2.id = e1.id
                      /\ e2.roi = e1.roi
                      /\ e2.latest_price = e1.latest_price
                      /\ e2.daily_change = e1.daily_change
                      /\ e2.days_held = e1.days_held
                      /\ \A fld \in MilestoneFields :
                            e1[fld] # None => e2[fld] = e1[fld]]_vars

\* A run is about to refresh a ledger holding an entry that the refresh
\* changes: the price has moved since it was last refreshed, its return is not
\* zero and a milestone is set.
C7_Witness ==
    /\ pc = "refresh"
    /\ LET h1 == update_history_roi(history_db, quotes, day, tod, TRUE)
       IN \E p \in Positions(h1) :
             /\ h1[p[1]].stocks[p[2]].roi # 0
             /\ h1[p[1]].stocks[p[2]].roi # history_db[p[1]].stocks[p[2]].roi
             /\ h1[p[1]].stocks[p[2]].perf_1d # None
             /\ history_db[p[1]].stocks[p[2]].days_held # None

\* C8. Archival gate: a run whose time, the clock reading it takes when it
\* begins, is within the session (09:00:00 <= t <= 13:30:00) leaves the ledger
\* with the entries and the date keys it had, at each of its steps, and
\* overwrites the today result document with what its scan found.
C8_SessionGate ==
    [][(pc # "idle" /\ InSession(now[2])) =>
          /\ Filed(history_db') = Filed(history_db)
          /\ LedgerKeys(history_db') = LedgerKeys(history_db)
          /\ IsFinish =>
                /\ data_json'.date = Some(<<KeyOfDay(now[1]), now[2]>>)
                /\ data_json'.list = daily_results
                /\ Len(saves') = 2
                /\ saves'[2] = SaveData(data_json'.list)]_vars

\* A run within the session has just found a match that is not on file.
C8_Witness ==
    /\ runs >= 1
    /\ pc = "idle"
    /\ InSession(data_json.date[1][2])
    /\ \E c \in ListIds(data_json.list) : c \notin LedgerIds(history_db)

\* C9. Archival date key: a run whose time (the clock reading it takes when
\* it begins) is outside the session files every matched instrument that is not
\* on file yet, as listed in the today document, under the key of its own date
\* when after 13:30:00 and of the previous calendar date when before 09:00:00;
\* it files nothing else, and no date key appears when nothing is new.
C9_ArchivalKey ==
    [][(IsFinish /\ ~InSession(now[2])) =>
          LET K == IF now[2] > 13 * 3600 + 30 * 60
                   THEN KeyOfDay(now[1]) ELSE KeyOfDay(now[1] - 1)
              new == ListIds(data_json'.list) \ LedgerIds(history_db)
          IN /\ Filed(history_db') \ Filed(history_db) = {<<K, c>> : c \in new}
             /\ \A i \in 1..Len(data_json'.list) :
                   data_json'.list[i].id \in new
                      => EntryOf(history_db', K, data_json'.list[i].id) = data_json'.list[i]
             /\ new = {} => LedgerKeys(history_db') = LedgerKeys(history_db)]_vars

\* The ledger holds entries filed by a run before 09:00 under the previous
\* calendar date and entries filed by a run after 13:30 under its own date.
C9_Witness ==
    /\ pc = "idle"
    /\ {KeyOfDay(0 - 1), KeyOfDay(0)} \subseteq LedgerKeys(history_db)
    /\ data_json.date = Some(<<KeyOfDay(0), 13 * 3600 + 30 * 60 + 1>>)

\* C10. Per-instrument failure isolation: an instrument whose processing raises
\* adds no entry to the today result and the scan goes on: what a batch adds is
\* what its other instruments give when the provider has nothing for the
\* raising ones, the next batch is scanned, and the run ends by writing the
\* today document with the entries found.
C10_FailureIsolation ==
    [][/\ IsBatch =>
             LET b == batch_no
                 o == [c \in ListedIn(b) |->
                         [last_run'.outcome[c] EXCEPT !.raises = FALSE]]
                 others == [c \in Listed \ last_run'.raised |-> quotes[c]]
             IN /\ ListIds(daily_results') \cap last_run'.raised = {}
                /\ daily_results'
                      = daily_results
                           \o run_scanner_batch(get_all_tickers, b, last_run'.batch_ok[b],
                                                o, others, day, tod)
                /\ IF b < NumBatches(get_all_tickers)
                   THEN pc' = "scan" /\ batch_no' = b + 1
                   ELSE pc' = "finish"
       /\ IsFinish =>
             /\ data_json'.date # None
             /\ data_json'.list = daily_results
             /\ ListIds(data_json'.list) \cap last_run.raised = {}
             /\ \E k \in 1..Len(saves') : saves'[k] = SaveData(data_json'.list)]_vars

\* In the latest run the instrument of the first batch raised and the one of
\* the second batch matched and is listed.
C10_Witness ==
    /\ runs > 0
    /\ pc = "idle"
    /\ 1101 \in last_run.raised
    /\ 5001 \in ListIds(data_json.list)

\* C11. Insufficient history is a non-match, never an error: for a frame
\* shorter than the evaluator's window (310 bars for check_strategy_original
\* and check_strategy_vcp_pro, 250 for check_strategy_n_shape), lengths 0 and 1
\* included, the evaluator returns (False, None) and does not raise, whatever
\* the bars hold.
C11_ShortHistoryNoMatch ==
    verdict # None =>
       LET v == verdict[1]
           Declined(r) == ~r.raised /\ ~r.matched /\ r.info = None
       IN /\ Len(df) < 310 => Declined(v.original)
          /\ Len(df) < 310 => Declined(v.vcp_pro)
          /\ Len(df) < 250 => Declined(v.n_shape)

\* The evaluators have been applied to a frame of one bar of price 0, and
\* other frames, one bar short of a window, have been too.
C11_Witness ==
    /\ verdict # None
    /\ Len(df) = 1
    /\ df[1].Close = 0
    /\ verdict[1].original = NoMatch

\* The frame of the end-to-end scenario of evaluator B: 310 bars, the close
\* rising from bar to bar over the first 300 and flat over the last 10, the
\* volume 2,000,000 shares on the rising bars and 400,000 on the flat ones, the
\* averages stacked (close above the 60-, 150-, 200- and 300-bar averages,
\* 60 above 120 above 240) and the 20-bar band width not above 15%.
VcpScenario(frame) ==
    /\ Len(frame) = 310
    /\ \A i \in 1..299 : frame[i].Close < frame[i + 1].Close
    /\ \A i \in 301..310 : frame[i].Close = frame[300].Close
    /\ \A i \in 1..300 : frame[i].Volume = 2000000
    /\ \A i \in 301..310 : frame[i].Volume = 400000
    /\ LET c == frame[310].Close
       IN /\ 60 * c > RollSum(frame, "Close", 60, 0)
          /\ 150 * c > RollSum(frame, "Close", 150, 0)
          /\ 200 * c > RollSum(frame, "Close", 200, 0)
          /\ 300 * c > RollSum(frame, "Close", 300, 0)
          /\ 2 * RollSum(frame, "Close", 60, 0) > RollSum(frame, "Close", 120, 0)
          /\ 2 * RollSum(frame, "Close", 120, 0) > RollSum(frame, "Close", 240, 0)
    /\ ~bb_width_exceeds(frame)

\* C12. Evaluator B on its end-to-end scenario (closes rising for 300 bars and
\* then flat for 10, volume falling from 2,000,000 to 400,000 shares on the flat
\* days, averages stacked, band width under 15%): check_strategy_vcp_pro
\* returns a match tagged "Strict-VCP".
C12_VcpScenarioMatches ==
    (verdict # None /\ VcpScenario(df)) =>
       /\ verdict[1].vcp_pro.matched
       /\ verdict[1].vcp_pro.info # None
       /\ verdict[1].vcp_pro.info[1].tag = "Strict-VCP"

\* The entries of a ledger with their date keys.
Entries(h) == {<<h[p[1]].key, h[p[1]].stocks[p[2]]>> : p \in Positions(h)}

\* An entry as the scan builds it: no return yet, the latest price the entry
\* price, no bar count and no milestone.
Unrefreshed(e) ==
    /\ e.roi = 0
    /\ e.latest_price = e.price
    /\ e.buy_price = e.price
    /\ e.days_held = None
    /\ \A fld \in MilestoneFields : e[fld] = None

\* C13. Refresh ordering: every run, at any time of day, first refreshes the
\* entries on file and saves the ledger, before it scans any batch; it writes
\* the today document after the scan and only then commits new entries; the
\* entries a run commits are not refreshed by it (roi 0, latest_price the entry
\* price) and the others are as the refresh of the run left them.
C13_RefreshFirst ==
    [][/\ (pc = "refresh" /\ pc' # "refresh") =>
             /\ IsRefresh
             /\ history_db' = update_history_roi(history_db, quotes, day, tod,
                                                 last_run'.dl_ok)
             /\ saves' = <<SaveHistory(history_db')>>
             /\ daily_results' = <<>>
             /\ data_json' = data_json
       /\ IsBatch =>
             /\ Len(saves) = 1
             /\ saves[1] = SaveHistory(history_db)
       /\ IsFinish =>
             /\ Len(saves) = 1
             /\ Len(saves') >= 2
             /\ saves'[2] = SaveData(data_json'.list)
             /\ \A k \in 3..Len(saves') : saves'[k] = SaveHistory(history_db')
             /\ history_db' # history_db => Len(saves') = 3
             /\ \A ke \in Entries(history_db') :
                    IF ke[2].id \in LedgerIds(history_db)
                    THEN ke \in Entries(history_db)
                    ELSE Unrefreshed(ke[2])]_vars

\* The latest run refreshed an entry on file, whose return is not zero, saved
\* the ledger, and afterwards committed a new entry, which it left unrefreshed.
C13_Witness ==
    /\ pc = "idle"
    /\ Len(saves) = 3
    /\ \E ke \in Entries(saves[1].ledger) :
          /\ ke[2].roi # 0
          /\ ke[2].days_held # None
          /\ ke \in Entries(history_db)
    /\ \E ke \in Entries(history_db) :
          /\ ke[2].id \notin LedgerIds(saves[1].ledger)
          /\ Unrefreshed(ke[2])

\* C14. Provider-wide failure is recovered: when the bulk download of the
\* refresh fails or is empty, the ledger is returned and saved with every entry
\* as it was and the scan begins; a batch whose download fails contributes no
\* entry and the batch after it is scanned; the run completes, every batch
\* gone through, having saved the ledger and written the today document.
C14_ProviderFailureRecovered ==
    [][/\ (pc = "refresh" /\ pc' # "refresh" /\ ~last_run'.dl_ok) =>
             /\ history_db' = history_db
             /\ saves' = <<SaveHistory(history_db)>>
             /\ pc' = "scan"
             /\ batch_no' = 1
       /\ (IsBatch /\ ~last_run'.batch_ok[batch_no]) =>
             /\ daily_results' = daily_results
             /\ IF batch_no < NumBatches(get_all_tickers)
                THEN pc' = "scan" /\ batch_no' = batch_no + 1
                ELSE pc' = "finish"
       /\ IsFinish =>
             /\ Len(last_run'.batch_ok) = NumBatches(get_all_tickers)
             /\ ListIds(data_json'.list)
                   = {c \in last_run'.matched : last_run'.batch_ok[BatchOf(c)]}
             /\ Len(saves') >= 2
             /\ saves'[1].file = "history.json"
             /\ saves'[2] = SaveData(data_json'.list)
             /\ data_json'.date = Some(<<KeyOfDay(now[1]), now[2]>>)]_vars

\* In the latest run the download of the refresh failed with entries on file,
\* the download of the first batch failed, which held an instrument that would
\* have matched, and the instrument of the second batch was scanned and listed.
C14_Witness ==
    /\ runs > 0
    /\ pc = "idle"
    /\ ~last_run.dl_ok
    /\ Positions(saves[1].ledger) # {}
    /\ ~last_run.batch_ok[1]
    /\ last_run.batch_ok[2]
    /\ 1101 \in last_run.matched
    /\ 5001 \in ListIds(data_json.list)

====
